---- MODULE Spec2Model ----
(***************************************************************************)
(* Daily-Habits MCP server (src/main.py): the one-time schema              *)
(* initialisation guard, the six tool handlers and the SQLite store they   *)
(* talk to, as a state machine whose steps are the handlers' await points. *)
(*                                                                         *)
(* Time is the UTC clock in ticks of half a day.  The store stamps         *)
(* completion_date with CURRENT_TIMESTAMP (UTC) and DATE() truncates it in *)
(* UTC; date.today() is the process-local date, tz ticks ahead of UTC.     *)
(* A calendar date is a day number; the ISO text DATE() produces and       *)
(* date.fromisoformat parses names the same day, one text per day.         *)
(*                                                                         *)
(* A connection that writes holds SQLite's write lock from its first write *)
(* statement to its commit; another connection's write statement waits for *)
(* it (busy handler), its reads see the committed tables.                  *)
(***************************************************************************)
EXTENDS Integers, Sequences, FiniteSets, TLC

\* ---------------------------------------------------------------- bounds
NumTasks == 2
MaxHabits == 1
MaxCompletions == 1
MaxNow == 1
MaxInitFailures == 1
StoreHabits == 2
StoreRows == 2
StreakIds == 2
StreakRows == 3
StreakHorizon == 7

TicksPerDay == 2

Tasks == 1..NumTasks
Names == {"Exercise", ""}
TzOffsets == {-1, 0, 1}
AllTables == {"habits", "habit_completions"}

VARIABLES
    db_initialized,     \* _db_initialized
    lockHolder,         \* task holding _db_init_lock, 0 when unlocked
    lockWaiters,        \* tasks suspended in _db_init_lock.acquire(), FIFO
    import_state,       \* progress of the import-time _ensure_db_initialized()
    tables,             \* tables that exist in habits.db
    habits,             \* committed habits rows: id -> [name, is_active]
    habit_completions,  \* committed habit_completions rows
    sqlite_sequence,    \* AUTOINCREMENT counters of the two tables
    txn,                \* the open write transaction and its uncommitted tables
    pc,                 \* each task's position in its handler
    op,                 \* the tool call each task is running
    result,             \* value returned (or error raised) by the task's call
    fetched,            \* rows fetched by list_habits / list_completions
    completion_days,    \* get_current_streak's completion_days
    today,              \* get_current_streak's today
    now,                \* UTC clock
    tz,                 \* local clock = UTC clock + tz
    cap,                \* clock horizon and row budgets of the run
    guardInitCalls,     \* init_db calls made by ensure_db_initialized
    guardInitFailures,  \* of which failed
    importInitCalls,    \* init_db calls made by _ensure_db_initialized
    deleted             \* ids of habits whose delete_habit has returned

vars == <<db_initialized, lockHolder, lockWaiters, import_state, tables,
          habits, habit_completions, sqlite_sequence, txn, pc, op, result,
          fetched, completion_days, today, now, tz, cap,
          guardInitCalls, guardInitFailures, importInitCalls, deleted>>

guardVars == <<db_initialized, lockHolder, lockWaiters>>
storeVars == <<habits, habit_completions, sqlite_sequence, txn>>
localVars == <<fetched, completion_days, today>>
clockVars == <<now, tz, cap>>
countVars == <<guardInitCalls, guardInitFailures, importInitCalls>>

\* ---------------------------------------------------------------- values
NoHabits == [i \in {} |-> [name |-> "", is_active |-> TRUE]]
NoTxn == [owner |-> 0, habits |-> NoHabits, habit_completions |-> {},
          sqlite_sequence |-> [habits |-> 0, habit_completions |-> 0]]
NoOp == [name |-> "none", habit_id |-> 0, text |-> ""]
NoResult == [kind |-> "none", num |-> 0, text |-> ""]

Msg(kind, num, text) == [kind |-> kind, num |-> num, text |-> text]
Raised(what) == Msg("error", 0, what)

\* DATE(completion_date): the UTC calendar date of a stored timestamp
UtcDate(ts) == ts \div TicksPerDay
\* date.today(): the process-local calendar date at UTC instant t
LocalDate(t) == (t + tz) \div TicksPerDay


\* ---------------------------------------------------------------- store
\* the constraint is not enforced (the PRAGMA was not run)
ForeignKeyOff(hs, h) == TRUE

\* FOREIGN KEY (habit_id) REFERENCES habits(id), enforced because the
\* connection ran PRAGMA foreign_keys = ON
ForeignKeyOk(hs, h) == h \in DOMAIN hs

\* the delete does not cascade
CascadeNone(cs, h) == cs

\* ON DELETE CASCADE: the completions left after habit h is deleted
Cascade(cs, h) == {c \in cs : c.habit_id # h}

\* without AUTOINCREMENT: one more than the largest id now in habits
NextIdAfterLargestRow(seq) ==
    IF DOMAIN habits = {} THEN 1
    ELSE (CHOOSE x \in DOMAIN habits : \A y \in DOMAIN habits : y <= x) + 1

\* INTEGER PRIMARY KEY AUTOINCREMENT: one more than the largest id the
\* table ever held
NextId(seq) == seq + 1

\* the existence check always passes
HabitExistsAlways(hs, h) == TRUE

\* SELECT 1 FROM habits WHERE id = ? ... fetchone() is not None
HabitExists(hs, h) == h \in DOMAIN hs

RECURSIVE IdsAscending(_)
IdsAscending(S) ==
    IF S = {} THEN <<>>
    ELSE LET m == CHOOSE x \in S : \A y \in S : x <= y
         IN <<m>> \o IdsAscending(S \ {m})

\* SELECT id, name, ..., is_active FROM habits (rowid order)
ListHabitsRows(hs) ==
    LET ids == IdsAscending(DOMAIN hs)
    IN [i \in 1..Len(ids) |->
          [id |-> ids[i], name |-> hs[ids[i]].name,
           is_active |-> hs[ids[i]].is_active]]

\* habit_completions hc JOIN habits h ON hc.habit_id = h.id
JoinedRows(hs, cs) ==
    {[id |-> c.id, name |-> hs[c.habit_id].name,
      completion_date |-> c.completion_date] :
        c \in {x \in cs : x.habit_id \in DOMAIN hs}}

\* the rows come oldest first
ListCompletionsResultsAscending(hs, cs) ==
    LET J == JoinedRows(hs, cs)
        n == Cardinality(J)
    IN {s \in [1..n -> J] :
          /\ \A i, j \in 1..n : i # j => s[i] # s[j]
          /\ \A i \in 1..n : \A j \in 1..n :
                i < j => s[i].completion_date <= s[j].completion_date}

\* ORDER BY hc.completion_date DESC; rows with equal timestamps come in
\* whatever order the store produces
ListCompletionsResults(hs, cs) ==
    LET J == JoinedRows(hs, cs)
        n == Cardinality(J)
    IN {s \in [1..n -> J] :
          /\ \A i, j \in 1..n : i # j => s[i] # s[j]
          /\ \A i \in 1..n : \A j \in 1..n :
                i < j => s[i].completion_date >= s[j].completion_date}

\* SELECT DISTINCT DATE(completion_date) ... WHERE habit_id = ?
CompletionDays(cs, h) ==
    {UtcDate(c.completion_date) : c \in {x \in cs : x.habit_id = h}}

\* the while-loop of get_current_streak
RECURSIVE StreakWalk(_, _, _)
StreakWalk(days, day0, streak) ==
    IF (day0 - streak) \in days
    THEN StreakWalk(days, day0, streak + 1)
    ELSE streak

\* the walk goes forward in time
RECURSIVE StreakStepsForward(_, _, _)
StreakStepsForward(days, day0, streak) ==
    IF (day0 + streak) \in days
    THEN 1 + StreakStepsForward(days, day0, streak + 1)
    ELSE 1

\* the number of times the body of the while-loop runs: once for every day
\* found and once for the day that breaks the loop
RECURSIVE StreakSteps(_, _, _)
StreakSteps(days, day0, streak) ==
    IF (day0 - streak) \in days
    THEN 1 + StreakSteps(days, day0, streak + 1)
    ELSE 1

\* the streak counts the completion days instead of walking them
CurrentStreakCountsDays(days, day0) == Cardinality(days)

\* the counter starts at 1
CurrentStreakFromOne(days, day0) == StreakWalk(days, day0, 0) + 1

\* lines 165-179: the value get_current_streak returns
CurrentStreak(days, day0) ==
    IF days = {} THEN 0 ELSE StreakWalk(days, day0, 0)

\* ---------------------------------------------------------------- initial state
\* the module body has run up to the call on its last line; habits.db is new
Fresh(c, offsets) ==
    /\ db_initialized = FALSE
    /\ lockHolder = 0
    /\ lockWaiters = <<>>
    /\ import_state = "importing"
    /\ tables = {}
    /\ habits = NoHabits
    /\ habit_completions = {}
    /\ sqlite_sequence = [habits |-> 0, habit_completions |-> 0]
    /\ txn = NoTxn
    /\ pc = [p \in Tasks |-> "idle"]
    /\ op = [p \in Tasks |-> NoOp]
    /\ result = [p \in Tasks |-> NoResult]
    /\ fetched = [p \in Tasks |-> <<>>]
    /\ completion_days = [p \in Tasks |-> {}]
    /\ today = [p \in Tasks |-> 0]
    /\ now = 0
    /\ tz \in offsets
    /\ cap = c
    /\ guardInitCalls = 0
    /\ guardInitFailures = 0
    /\ importInitCalls = 0
    /\ deleted = {}

\* the server is up: the import ran init_db, a first tool call went through
\* the guard and ran it again, and n habits were added since
Serving0(c, offsets, n) ==
    /\ db_initialized = TRUE
    /\ lockHolder = 0
    /\ lockWaiters = <<>>
    /\ import_state = "done"
    /\ tables = AllTables
    /\ habits = [i \in 1..n |-> [name |-> "Exercise", is_active |-> TRUE]]
    /\ habit_completions = {}
    /\ sqlite_sequence = [habits |-> n, habit_completions |-> 0]
    /\ txn = NoTxn
    /\ pc = [p \in Tasks |-> "idle"]
    /\ op = [p \in Tasks |-> NoOp]
    /\ result = [p \in Tasks |-> NoResult]
    /\ fetched = [p \in Tasks |-> <<>>]
    /\ completion_days = [p \in Tasks |-> {}]
    /\ today = [p \in Tasks |-> 0]
    /\ now = 0
    /\ tz \in offsets
    /\ cap = c
    /\ guardInitCalls = 1
    /\ guardInitFailures = 0
    /\ importInitCalls = 1
    /\ deleted = {}

Init ==
    Fresh([clock |-> MaxNow, rows |-> MaxCompletions, habits |-> MaxHabits],
          TzOffsets)

InitStore ==
    Serving0([clock |-> 0, rows |-> StoreRows, habits |-> StoreHabits], {0}, 0)

InitStreak ==
    Serving0([clock |-> StreakHorizon, rows |-> StreakRows,
              habits |-> StreakIds], TzOffsets, 1)

\* ---------------------------------------------------------------- clock
Tick ==
    /\ now < cap.clock
    /\ now' = now + 1
    /\ UNCHANGED <<guardVars, import_state, tables, storeVars, pc, op, result,
                   localVars, tz, cap, countVars, deleted>>

\* ---------------------------------------------------------------- import
\* _ensure_db_initialized(), no running loop: asyncio.run(init_db()) succeeds
ImportRunInitDb ==
    /\ import_state = "importing"
    /\ import_state' = "done"
    /\ tables' = AllTables
    /\ importInitCalls' = importInitCalls + 1
    /\ UNCHANGED <<guardVars, storeVars, pc, op, result, localVars, clockVars,
                   guardInitCalls, guardInitFailures, deleted>>

\* _ensure_db_initialized(), no running loop: init_db raises and the import
\* of the module fails; no tool is ever served
ImportRunInitDbFailed ==
    /\ import_state = "importing"
    /\ import_state' = "crashed"
    /\ \E created \in {{}, {"habits"}} : tables' = tables \cup created
    /\ importInitCalls' = importInitCalls + 1
    /\ UNCHANGED <<guardVars, storeVars, pc, op, result, localVars, clockVars,
                   guardInitCalls, guardInitFailures, deleted>>

\* _ensure_db_initialized(), loop running: loop.create_task(init_db())
ImportScheduleInitDb ==
    /\ import_state = "importing"
    /\ import_state' = "scheduled"
    /\ UNCHANGED <<guardVars, tables, storeVars, pc, op, result, localVars,
                   clockVars, countVars, deleted>>

\* the scheduled init_db task runs to its commit
ImportTaskInitDb ==
    /\ import_state = "scheduled"
    /\ import_state' = "done"
    /\ tables' = AllTables
    /\ importInitCalls' = importInitCalls + 1
    /\ UNCHANGED <<guardVars, storeVars, pc, op, result, localVars, clockVars,
                   guardInitCalls, guardInitFailures, deleted>>

\* the scheduled init_db task raises; nobody awaits it
ImportTaskInitDbFailed ==
    /\ import_state = "scheduled"
    /\ import_state' = "task_failed"
    /\ \E created \in {{}, {"habits"}} : tables' = tables \cup created
    /\ importInitCalls' = importInitCalls + 1
    /\ UNCHANGED <<guardVars, storeVars, pc, op, result, localVars, clockVars,
                   guardInitCalls, guardInitFailures, deleted>>

\* the dispatcher routes tool calls once the module is imported
Serving == import_state \in {"scheduled", "done", "task_failed"}


\* ---------------------------------------------------------------- guard
\* the first check always passes
FirstCheckAlways == TRUE

\* line 30: if _db_initialized: return
FirstCheck == db_initialized

\* the check is not repeated under the lock
SecondCheckDropped == FALSE

\* line 33: the check repeated under the lock
SecondCheck == db_initialized

\* asyncio.Lock.acquire() takes the lock without suspending only when it is
\* unlocked and nobody is queued for it
LockFree == lockHolder = 0 /\ lockWaiters = <<>>

\* the tool calls a client can make
Calls ==
    {[name |-> "add_habit", habit_id |-> 0, text |-> n] : n \in Names}
    \cup {[name |-> nm, habit_id |-> 0, text |-> ""] :
            nm \in {"list_habits", "list_completions"}}
    \cup {[name |-> nm, habit_id |-> h, text |-> ""] :
            nm \in {"complete_habit", "delete_habit", "get_current_streak"},
            h \in 1..cap.habits}

\* a handler is entered: its locals are fresh
Enter(p, c) ==
    /\ Serving
    /\ pc[p] \in {"idle", "done"}
    /\ op' = [op EXCEPT ![p] = c]
    /\ result' = [result EXCEPT ![p] = NoResult]
    /\ fetched' = [fetched EXCEPT ![p] = <<>>]
    /\ completion_days' = [completion_days EXCEPT ![p] = {}]
    /\ today' = [today EXCEPT ![p] = 0]

\* await ensure_db_initialized() returns at line 31 without suspending; the
\* handler goes on to aiosqlite.connect
CallInitialized(p, c) ==
    /\ Enter(p, c)
    /\ FirstCheck
    /\ pc' = [pc EXCEPT ![p] = "connect"]
    /\ UNCHANGED <<guardVars, import_state, tables, storeVars, clockVars,
                   countVars, deleted>>

\* the flag is unset and the lock is free: take it, check again, call init_db
CallCreates(p, c) ==
    /\ Enter(p, c)
    /\ ~FirstCheck
    /\ LockFree
    /\ ~SecondCheck
    /\ lockHolder' = p
    /\ pc' = [pc EXCEPT ![p] = "init_db"]
    /\ guardInitCalls' = guardInitCalls + 1
    /\ UNCHANGED <<db_initialized, lockWaiters, import_state, tables,
                   storeVars, clockVars, guardInitFailures, importInitCalls,
                   deleted>>

\* the flag is unset and the lock is taken: queue for it
CallWaits(p, c) ==
    /\ Enter(p, c)
    /\ ~FirstCheck
    /\ ~LockFree
    /\ lockWaiters' = Append(lockWaiters, p)
    /\ pc' = [pc EXCEPT ![p] = "lock_wait"]
    /\ UNCHANGED <<db_initialized, lockHolder, import_state, tables,
                   storeVars, clockVars, countVars, deleted>>

\* the first waiter gets the released lock and finds the flag set: it
\* returns at line 34 and leaves the lock to the next waiter
WaiterFindsInitialized(p) ==
    /\ pc[p] = "lock_wait"
    /\ lockHolder = 0
    /\ lockWaiters # <<>> /\ Head(lockWaiters) = p
    /\ SecondCheck
    /\ lockWaiters' = Tail(lockWaiters)
    /\ pc' = [pc EXCEPT ![p] = "connect"]
    /\ UNCHANGED <<db_initialized, lockHolder, import_state, tables,
                   storeVars, op, result, localVars, clockVars, countVars,
                   deleted>>

\* the first waiter gets the released lock and finds the flag unset: it
\* calls init_db
WaiterCreates(p) ==
    /\ pc[p] = "lock_wait"
    /\ lockHolder = 0
    /\ lockWaiters # <<>> /\ Head(lockWaiters) = p
    /\ ~SecondCheck
    /\ lockWaiters' = Tail(lockWaiters)
    /\ lockHolder' = p
    /\ pc' = [pc EXCEPT ![p] = "init_db"]
    /\ guardInitCalls' = guardInitCalls + 1
    /\ UNCHANGED <<db_initialized, import_state, tables, storeVars, op,
                   result, localVars, clockVars, guardInitFailures,
                   importInitCalls, deleted>>

\* lines 35-36: init_db commits, the flag is set, the lock is released
InitDbDone(p) ==
    /\ pc[p] = "init_db"
    /\ tables' = AllTables
    /\ db_initialized' = TRUE
    /\ lockHolder' = 0
    /\ pc' = [pc EXCEPT ![p] = "connect"]
    /\ UNCHANGED <<lockWaiters, import_state, storeVars, op, result,
                   localVars, clockVars, countVars, deleted>>

\* the lock is not released when init_db raises
InitDbFailedKeepsLock(p) ==
    /\ pc[p] = "init_db"
    /\ guardInitFailures < MaxInitFailures
    /\ \E created \in {{}, {"habits"}} : tables' = tables \cup created
    /\ guardInitFailures' = guardInitFailures + 1
    /\ pc' = [pc EXCEPT ![p] = "done"]
    /\ result' = [result EXCEPT ![p] = [kind |-> "error", num |-> 0,
                                        text |-> "init_db"]]
    /\ UNCHANGED <<db_initialized, lockHolder, lockWaiters, import_state,
                   storeVars, op, localVars, clockVars, guardInitCalls,
                   importInitCalls, deleted>>

\* the flag is set although init_db raised
InitDbFailedSetsFlag(p) ==
    /\ pc[p] = "init_db"
    /\ guardInitFailures < MaxInitFailures
    /\ \E created \in {{}, {"habits"}} : tables' = tables \cup created
    /\ db_initialized' = TRUE
    /\ lockHolder' = 0
    /\ guardInitFailures' = guardInitFailures + 1
    /\ pc' = [pc EXCEPT ![p] = "done"]
    /\ result' = [result EXCEPT ![p] = [kind |-> "error", num |-> 0,
                                        text |-> "init_db"]]
    /\ UNCHANGED <<lockWaiters, import_state, storeVars, op, localVars,
                   clockVars, guardInitCalls, importInitCalls, deleted>>

\* line 35 raises: the async with releases the lock, the handler ends with
\* the error
InitDbFailed(p) ==
    /\ pc[p] = "init_db"
    /\ guardInitFailures < MaxInitFailures
    /\ \E created \in {{}, {"habits"}} : tables' = tables \cup created
    /\ lockHolder' = 0
    /\ guardInitFailures' = guardInitFailures + 1
    /\ pc' = [pc EXCEPT ![p] = "done"]
    /\ result' = [result EXCEPT ![p] = Raised("init_db")]
    /\ UNCHANGED <<db_initialized, lockWaiters, import_state, storeVars, op,
                   localVars, clockVars, guardInitCalls, importInitCalls,
                   deleted>>

\* ---------------------------------------------------------------- handlers
At(p, name, where) == pc[p] = where /\ op[p].name = name

Return(p, r) ==
    /\ pc' = [pc EXCEPT ![p] = "done"]
    /\ result' = [result EXCEPT ![p] = r]

\* the tables a write statement of a new transaction starts from
Begin(p) ==
    [owner |-> p, habits |-> habits, habit_completions |-> habit_completions,
     sqlite_sequence |-> sqlite_sequence]

\* db.commit(): the transaction's tables become the committed ones
Commit(p) ==
    /\ txn.owner = p
    /\ habits' = txn.habits
    /\ habit_completions' = txn.habit_completions
    /\ sqlite_sequence' = txn.sqlite_sequence
    /\ txn' = NoTxn

\* add_habit lines 82-87: connect, PRAGMA, INSERT INTO habits
AddHabitInsert(p) ==
    /\ At(p, "add_habit", "connect")
    /\ txn.owner = 0
    /\ sqlite_sequence.habits < cap.habits
    /\ LET id == NextId(sqlite_sequence.habits)
           b == Begin(p)
       IN txn' = [b EXCEPT
                    !.habits = [i \in DOMAIN habits \cup {id} |->
                                  IF i = id
                                  THEN [name |-> op[p].text, is_active |-> TRUE]
                                  ELSE habits[i]],
                    !.sqlite_sequence.habits = id]
    /\ pc' = [pc EXCEPT ![p] = "commit"]
    /\ UNCHANGED <<guardVars, import_state, tables, habits, habit_completions,
                   sqlite_sequence, op, result, localVars, clockVars,
                   countVars, deleted>>

\* add_habit lines 88-89
AddHabitCommit(p) ==
    /\ At(p, "add_habit", "commit")
    /\ Commit(p)
    /\ Return(p, Msg("added", 0, op[p].text))
    /\ UNCHANGED <<guardVars, import_state, tables, op, localVars, clockVars,
                   countVars, deleted>>

\* list_habits lines 95-101
ListHabits(p) ==
    /\ At(p, "list_habits", "connect")
    /\ fetched' = [fetched EXCEPT ![p] = ListHabitsRows(habits)]
    /\ Return(p, Msg("rows", 0, ""))
    /\ UNCHANGED <<guardVars, import_state, tables, storeVars, op,
                   completion_days, today, clockVars, countVars, deleted>>

\* complete_habit lines 107-113: the habit is not there
CompleteHabitMissing(p) ==
    /\ At(p, "complete_habit", "connect")
    /\ ~HabitExists(habits, op[p].habit_id)
    /\ Return(p, Msg("does_not_exist", op[p].habit_id, ""))
    /\ UNCHANGED <<guardVars, import_state, tables, storeVars, op, localVars,
                   clockVars, countVars, deleted>>

\* complete_habit lines 107-112: the habit is there
CompleteHabitFound(p) ==
    /\ At(p, "complete_habit", "connect")
    /\ HabitExists(habits, op[p].habit_id)
    /\ pc' = [pc EXCEPT ![p] = "insert"]
    /\ UNCHANGED <<guardVars, import_state, tables, storeVars, op, result,
                   localVars, clockVars, countVars, deleted>>

\* the insert is skipped when the habit already has a completion that day
CompleteHabitInsertOncePerDay(p) ==
    /\ pc[p] = "insert" /\ op[p].name = "complete_habit"
    /\ txn.owner = 0
    /\ op[p].habit_id \in DOMAIN habits
    /\ sqlite_sequence.habit_completions < cap.rows
    /\ LET id == sqlite_sequence.habit_completions + 1
           dup == \E c \in habit_completions :
                     /\ c.habit_id = op[p].habit_id
                     /\ c.completion_date \div TicksPerDay
                           = now \div TicksPerDay
       IN txn' = [owner |-> p, habits |-> habits,
                  habit_completions |->
                      IF dup THEN habit_completions
                      ELSE habit_completions \cup
                             {[id |-> id, habit_id |-> op[p].habit_id,
                               completion_date |-> now]},
                  sqlite_sequence |->
                      IF dup THEN sqlite_sequence
                      ELSE [sqlite_sequence EXCEPT !.habit_completions = id]]
    /\ pc' = [pc EXCEPT ![p] = "commit"]
    /\ UNCHANGED <<guardVars, import_state, tables, habits, habit_completions,
                   sqlite_sequence, op, result, localVars, clockVars,
                   countVars, deleted>>

\* complete_habit lines 115-118: INSERT INTO habit_completions
CompleteHabitInsert(p) ==
    /\ At(p, "complete_habit", "insert")
    /\ txn.owner = 0
    /\ ForeignKeyOk(habits, op[p].habit_id)
    /\ sqlite_sequence.habit_completions < cap.rows
    /\ LET id == NextId(sqlite_sequence.habit_completions)
           b == Begin(p)
       IN txn' = [b EXCEPT
                    !.habit_completions = habit_completions \cup
                        {[id |-> id, habit_id |-> op[p].habit_id,
                          completion_date |-> now]},
                    !.sqlite_sequence.habit_completions = id]
    /\ pc' = [pc EXCEPT ![p] = "commit"]
    /\ UNCHANGED <<guardVars, import_state, tables, habits, habit_completions,
                   sqlite_sequence, op, result, localVars, clockVars,
                   countVars, deleted>>

\* the rejected insert is reported as a missing habit instead of raised
CompleteHabitRejectedSwallowed(p) ==
    /\ pc[p] = "insert" /\ op[p].name = "complete_habit"
    /\ txn.owner = 0
    /\ op[p].habit_id \notin DOMAIN habits
    /\ pc' = [pc EXCEPT ![p] = "done"]
    /\ result' = [result EXCEPT ![p] =
                    [kind |-> "does_not_exist", num |-> op[p].habit_id,
                     text |-> ""]]
    /\ UNCHANGED <<guardVars, import_state, tables, storeVars, op, localVars,
                   clockVars, countVars, deleted>>

\* complete_habit lines 115-118: the store rejects the INSERT, the error
\* leaves the handler and the connection closes without a commit
CompleteHabitRejected(p) ==
    /\ At(p, "complete_habit", "insert")
    /\ txn.owner = 0
    /\ ~ForeignKeyOk(habits, op[p].habit_id)
    /\ Return(p, Raised("FOREIGN KEY constraint failed"))
    /\ UNCHANGED <<guardVars, import_state, tables, storeVars, op, localVars,
                   clockVars, countVars, deleted>>

\* complete_habit lines 119-121
CompleteHabitCommit(p) ==
    /\ At(p, "complete_habit", "commit")
    /\ Commit(p)
    /\ Return(p, Msg("completed", op[p].habit_id, ""))
    /\ UNCHANGED <<guardVars, import_state, tables, op, localVars, clockVars,
                   countVars, deleted>>

\* list_completions lines 127-136
ListCompletions(p) ==
    /\ At(p, "list_completions", "connect")
    /\ \E rows \in ListCompletionsResults(habits, habit_completions) :
          fetched' = [fetched EXCEPT ![p] = rows]
    /\ Return(p, Msg("rows", 0, ""))
    /\ UNCHANGED <<guardVars, import_state, tables, storeVars, op,
                   completion_days, today, clockVars, countVars, deleted>>

\* delete_habit lines 142-144: DELETE FROM habits, cascading
DeleteHabitDelete(p) ==
    /\ At(p, "delete_habit", "connect")
    /\ txn.owner = 0
    /\ LET h == op[p].habit_id
           b == Begin(p)
       IN txn' = [b EXCEPT
                    !.habits = [i \in DOMAIN habits \ {h} |-> habits[i]],
                    !.habit_completions = Cascade(habit_completions, h)]
    /\ pc' = [pc EXCEPT ![p] = "commit"]
    /\ UNCHANGED <<guardVars, import_state, tables, habits, habit_completions,
                   sqlite_sequence, op, result, localVars, clockVars,
                   countVars, deleted>>

\* a delete that matched no row reports it
DeleteHabitCommitReportsMissing(p) ==
    /\ pc[p] = "commit" /\ op[p].name = "delete_habit"
    /\ txn.owner = p
    /\ habits' = txn.habits
    /\ habit_completions' = txn.habit_completions
    /\ sqlite_sequence' = txn.sqlite_sequence
    /\ txn' = NoTxn
    /\ pc' = [pc EXCEPT ![p] = "done"]
    /\ result' = [result EXCEPT ![p] =
                    [kind |-> IF op[p].habit_id \in DOMAIN habits
                              THEN "deleted" ELSE "does_not_exist",
                     num |-> op[p].habit_id, text |-> ""]]
    /\ deleted' = IF op[p].habit_id <= sqlite_sequence.habits
                  THEN deleted \cup {op[p].habit_id}
                  ELSE deleted
    /\ UNCHANGED <<guardVars, import_state, tables, op, localVars, clockVars,
                   countVars>>

\* delete_habit lines 145-146
DeleteHabitCommit(p) ==
    /\ At(p, "delete_habit", "commit")
    /\ Commit(p)
    /\ Return(p, Msg("deleted", op[p].habit_id, ""))
    /\ deleted' = IF op[p].habit_id <= sqlite_sequence.habits
                  THEN deleted \cup {op[p].habit_id}
                  ELSE deleted
    /\ UNCHANGED <<guardVars, import_state, tables, op, localVars, clockVars,
                   countVars>>

\* the query opens a write transaction that is never committed
StreakQueryHoldsWriteLock(p) ==
    /\ pc[p] = "connect" /\ op[p].name = "get_current_streak"
    /\ txn.owner = 0
    /\ txn' = [owner |-> p, habits |-> habits,
               habit_completions |-> habit_completions,
               sqlite_sequence |-> sqlite_sequence]
    /\ completion_days' = [completion_days EXCEPT ![p] =
                             CompletionDays(habit_completions, op[p].habit_id)]
    /\ pc' = [pc EXCEPT ![p] = "compute"]
    /\ UNCHANGED <<guardVars, import_state, tables, habits, habit_completions,
                   sqlite_sequence, op, result, fetched, today, clockVars,
                   countVars, deleted>>

\* get_current_streak lines 155-163: the query, then the connection closes
StreakQuery(p) ==
    /\ At(p, "get_current_streak", "connect")
    /\ completion_days' = [completion_days EXCEPT ![p] =
                             CompletionDays(habit_completions, op[p].habit_id)]
    /\ pc' = [pc EXCEPT ![p] = "compute"]
    /\ UNCHANGED <<guardVars, import_state, tables, storeVars, op, result,
                   fetched, today, clockVars, countVars, deleted>>

\* get_current_streak lines 165-179
StreakCompute(p) ==
    /\ At(p, "get_current_streak", "compute")
    /\ today' = [today EXCEPT ![p] = LocalDate(now)]
    /\ Return(p, Msg("streak",
                     CurrentStreak(completion_days[p], LocalDate(now)), ""))
    /\ UNCHANGED <<guardVars, import_state, tables, storeVars, op, fetched,
                   completion_days, clockVars, countVars, deleted>>

\* ---------------------------------------------------------------- system
Next ==
    \/ Tick
    \/ ImportRunInitDb
    \/ ImportRunInitDbFailed
    \/ ImportScheduleInitDb
    \/ ImportTaskInitDb
    \/ ImportTaskInitDbFailed
    \/ \E p \in Tasks : \E c \in Calls : CallInitialized(p, c)
    \/ \E p \in Tasks : \E c \in Calls : CallCreates(p, c)
    \/ \E p \in Tasks : \E c \in Calls : CallWaits(p, c)
    \/ \E p \in Tasks : WaiterFindsInitialized(p)
    \/ \E p \in Tasks : WaiterCreates(p)
    \/ \E p \in Tasks : InitDbDone(p)
    \/ \E p \in Tasks : InitDbFailed(p)
    \/ \E p \in Tasks : AddHabitInsert(p)
    \/ \E p \in Tasks : AddHabitCommit(p)
    \/ \E p \in Tasks : ListHabits(p)
    \/ \E p \in Tasks : CompleteHabitMissing(p)
    \/ \E p \in Tasks : CompleteHabitFound(p)
    \/ \E p \in Tasks : CompleteHabitInsert(p)
    \/ \E p \in Tasks : CompleteHabitRejected(p)
    \/ \E p \in Tasks : CompleteHabitCommit(p)
    \/ \E p \in Tasks : ListCompletions(p)
    \/ \E p \in Tasks : DeleteHabitDelete(p)
    \/ \E p \in Tasks : DeleteHabitCommit(p)
    \/ \E p \in Tasks : StreakQuery(p)
    \/ \E p \in Tasks : StreakCompute(p)

Spec == Init /\ [][Next]_vars

\* the event loop resumes a waiter that was handed the lock, and every
\* init_db call ends, by returning or by raising
GuardFairness ==
    \A p \in Tasks :
        /\ WF_vars(WaiterFindsInitialized(p))
        /\ WF_vars(WaiterCreates(p))
        /\ WF_vars(InitDbDone(p) \/ InitDbFailed(p))

SpecFair == Spec /\ GuardFairness

\* the store under concurrent handlers, once the server is up
StoreCalls ==
    {c \in Calls : c.name \in {"add_habit", "complete_habit", "delete_habit",
                               "list_completions", "get_current_streak"}}

NextStore ==
    \/ \E p \in Tasks : \E c \in StoreCalls : CallInitialized(p, c)
    \/ \E p \in Tasks : AddHabitInsert(p)
    \/ \E p \in Tasks : AddHabitCommit(p)
    \/ \E p \in Tasks : CompleteHabitMissing(p)
    \/ \E p \in Tasks : CompleteHabitFound(p)
    \/ \E p \in Tasks : CompleteHabitInsert(p)
    \/ \E p \in Tasks : CompleteHabitRejected(p)
    \/ \E p \in Tasks : CompleteHabitCommit(p)
    \/ \E p \in Tasks : ListCompletions(p)
    \/ \E p \in Tasks : DeleteHabitDelete(p)
    \/ \E p \in Tasks : DeleteHabitCommit(p)
    \/ \E p \in Tasks : StreakQuery(p)
    \/ \E p \in Tasks : StreakCompute(p)

SpecStore == InitStore /\ [][NextStore]_vars

\* one client completing a habit, listing the completions and asking for the
\* streak over several days
StreakCalls ==
    {c \in Calls : c.name \in {"complete_habit", "list_completions",
                               "get_current_streak"}}

NextStreak ==
    \/ Tick
    \/ \E c \in StreakCalls : CallInitialized(1, c)
    \/ CompleteHabitMissing(1)
    \/ CompleteHabitFound(1)
    \/ CompleteHabitInsert(1)
    \/ CompleteHabitCommit(1)
    \/ ListCompletions(1)
    \/ StreakQuery(1)
    \/ StreakCompute(1)

SpecStreak == InitStreak /\ [][NextStreak]_vars


\* ================================================================ claims
InHandlerBody(p) == pc[p] \in {"connect", "insert", "commit", "compute"}
Returned(p) == pc[p] = "done" /\ result[p] # [kind |-> "error", num |-> 0,
                                               text |-> "init_db"]
PastGuard(p) == InHandlerBody(p) \/ Returned(p)
CreationsInFlight == IF lockHolder = 0 THEN 0 ELSE 1
IsStreakResult(p) ==
    /\ pc[p] = "done"
    /\ op[p].name = "get_current_streak"
    /\ result[p].kind = "streak"

\* C1: as long as no init_db call of the guard has failed, the guard has
\* called init_db at most once, and every caller that is past the guard got
\* there after exactly one call, with the flag set and both tables created.
C1_GuardCreatesOnce ==
    guardInitFailures = 0 =>
        /\ guardInitCalls <= 1
        /\ \A p \in Tasks :
              PastGuard(p) =>
                  /\ guardInitCalls = 1
                  /\ CreationsInFlight = 0
                  /\ db_initialized
                  /\ tables = {"habits", "habit_completions"}

\* a caller queued while the creation was in flight; the creation is over
\* and it is about to return without creating
C1_Witness ==
    /\ guardInitFailures = 0
    /\ guardInitCalls = 1
    /\ db_initialized
    /\ \E p, q \in Tasks :
          /\ p # q
          /\ PastGuard(p)
          /\ pc[q] = "lock_wait"
          /\ lockHolder = 0

\* C2: when no schema creation fails, init_db runs at most once in the
\* process, counting the import-time call and the guard's calls.
C2_SchemaCreatedOncePerProcess ==
    (guardInitFailures = 0 /\ import_state \notin {"crashed", "task_failed"})
        => guardInitCalls + importInitCalls <= 1

\* C3: a handler is at a statement against the store, or holds a
\* transaction, or rows exist, only when _db_initialized is set; and the flag
\* is set only when an init_db call of the guard has completed and the tables
\* exist.
C3_NoAccessBeforeSchema ==
    /\ \A p \in Tasks : (InHandlerBody(p) \/ Returned(p)) => db_initialized
    /\ txn.owner # 0 => db_initialized
    /\ (sqlite_sequence.habits > 0 \/ sqlite_sequence.habit_completions > 0)
          => db_initialized
    /\ db_initialized =>
          /\ tables = {"habits", "habit_completions"}
          /\ guardInitCalls - guardInitFailures - CreationsInFlight >= 1

\* two handlers are in their store statements at once, right after start
C3_Witness ==
    \E p, q \in Tasks :
        /\ p # q
        /\ pc[p] = "commit"
        /\ pc[q] = "connect"
        /\ guardInitCalls = 1

\* C4: a failing init_db leaves the flag unset, releases the lock and ends
\* the caller with the error and no store access; whoever gets the lock next
\* with the flag unset calls init_db again; the flag is set only by a step in
\* which an init_db call completes.
C4_FailedInitIsRetried ==
    [][ /\ \A p \in Tasks :
              (pc[p] = "init_db" /\ pc'[p] = "done") =>
                  /\ ~db_initialized'
                  /\ lockHolder' = 0
                  /\ result'[p] = [kind |-> "error", num |-> 0,
                                   text |-> "init_db"]
                  /\ UNCHANGED storeVars
        /\ \A p \in Tasks :
              (pc[p] = "lock_wait" /\ pc'[p] # "lock_wait" /\ ~db_initialized)
                  => /\ pc'[p] = "init_db"
                     /\ guardInitCalls' = guardInitCalls + 1
        /\ \A p \in Tasks :
              (/\ pc[p] \in {"idle", "done"}
               /\ pc'[p] \notin {"idle", "done"}
               /\ ~db_initialized
               /\ lockHolder = 0 /\ lockWaiters = <<>>)
                  => /\ pc'[p] = "init_db"
                     /\ guardInitCalls' = guardInitCalls + 1
        /\ (~db_initialized /\ db_initialized') =>
              \E p \in Tasks :
                  /\ pc[p] = "init_db"
                  /\ pc'[p] = "connect"
                  /\ tables' = {"habits", "habit_completions"}
      ]_vars

\* an init_db call failed, its caller got the error, and a second call
\* created the schema
C4_Witness ==
    /\ guardInitFailures = 1
    /\ guardInitCalls = 2
    /\ db_initialized
    /\ \E p \in Tasks :
          /\ pc[p] = "done"
          /\ result[p] = [kind |-> "error", num |-> 0, text |-> "init_db"]

\* C5: every completion row, committed or in the open transaction, refers
\* to a habit present in the same tables.
C5_NoOrphanCompletions ==
    /\ \A c \in habit_completions : c.habit_id \in DOMAIN habits
    /\ txn.owner # 0 =>
          \A c \in txn.habit_completions : c.habit_id \in DOMAIN txn.habits

\* a delete_habit committed between a complete_habit's check and its insert
C5_Witness ==
    \E p \in Tasks :
        /\ pc[p] = "done"
        /\ op[p].name = "complete_habit"
        /\ result[p].kind = "error"
        /\ op[p].habit_id \in deleted

\* C6: the step of complete_habit that finds no habit with the given id
\* returns "Habit <id> does not exist." and leaves the store as it was.
C6_MissingHabitIsReported ==
    [][ \A p \in Tasks :
          (/\ pc[p] = "connect"
           /\ op[p].name = "complete_habit"
           /\ op[p].habit_id \notin DOMAIN habits
           /\ pc'[p] # pc[p])
              => /\ pc'[p] = "done"
                 /\ result'[p] = [kind |-> "does_not_exist",
                                  num |-> op[p].habit_id, text |-> ""]
                 /\ UNCHANGED storeVars
      ]_vars

\* complete_habit has returned the message for an id the store never assigned
C6_Witness ==
    \E p \in Tasks :
        /\ pc[p] = "done"
        /\ op[p].name = "complete_habit"
        /\ result[p].kind = "does_not_exist"
        /\ result[p].num > sqlite_sequence.habits

\* C7: once delete_habit(h) has returned for a habit h, no completion of h
\* is in the store; every list_completions query made from then on returns
\* only rows of completions whose habit is not deleted; and the delete removes
\* the completions of h and no others.
C7_DeleteCascades ==
    /\ [](\A h \in deleted :
            /\ \A c \in habit_completions : c.habit_id # h
            /\ \A c \in txn.habit_completions : c.habit_id # h)
    /\ [][ /\ \A p \in Tasks :
                (/\ pc[p] = "connect"
                 /\ op[p].name = "list_completions"
                 /\ pc'[p] = "done")
                    => \A i \in DOMAIN fetched'[p] :
                          \E c \in habit_completions :
                              /\ c.id = fetched'[p][i].id
                              /\ c.habit_id \notin deleted
           /\ \A p \in Tasks :
                (/\ pc[p] = "commit"
                 /\ op[p].name = "delete_habit"
                 /\ pc'[p] = "done")
                    => habit_completions' =
                          {c \in habit_completions :
                              c.habit_id # op[p].habit_id}
         ]_vars

\* a habit with a completion was deleted, another habit's completion is
\* still there and is what list_completions returns
C7_Witness ==
    /\ deleted # {}
    /\ sqlite_sequence.habit_completions = 2
    /\ Cardinality(habit_completions) = 1
    /\ \E p \in Tasks :
          /\ pc[p] = "done"
          /\ op[p].name = "list_completions"
          /\ Len(fetched[p]) = 1
          /\ \E c \in habit_completions : c.id = fetched[p][1].id

\* C8: when all completions of a habit were recorded on the local date on
\* which get_current_streak runs, and the query saw them all, the result is 1.
C8_TodayOnlyStreakIsOne ==
    \A p \in Tasks :
        LET mine == {c \in habit_completions : c.habit_id = op[p].habit_id}
        IN (/\ IsStreakResult(p)
            /\ mine # {}
            /\ \A c \in mine :
                  (c.completion_date + tz) \div TicksPerDay = today[p]
            /\ completion_days[p] =
                  {c.completion_date \div TicksPerDay : c \in mine})
               => result[p].num = 1

\* C9: the result k of get_current_streak is the number of days of the
\* longest run today, today-1, ... of days all in completion_days: the k
\* days from today back are in the set and the day before them is not.
C9_StreakIsLongestRun ==
    \A p \in Tasks :
        IsStreakResult(p) =>
            LET k == result[p].num
            IN /\ k >= 0
               /\ \A i \in 0..(k - 1) : (today[p] - i) \in completion_days[p]
               /\ (today[p] - k) \notin completion_days[p]

\* completions today, yesterday and 3 days ago, none 2 days ago: streak 2
C9_Witness ==
    \E p \in Tasks :
        /\ IsStreakResult(p)
        /\ completion_days[p] = {today[p], today[p] - 1, today[p] - 3}
        /\ result[p].num = 2

\* C10: get_current_streak of a habit id with no completion row (whether or
\* not such a habit exists) fetches no day and returns 0, not an error.
C10_NoCompletionsStreakZero ==
    /\ [](\A p \in Tasks :
            (/\ pc[p] = "done"
             /\ op[p].name = "get_current_streak"
             /\ result[p] # [kind |-> "error", num |-> 0, text |-> "init_db"]
             /\ completion_days[p] = {})
                => result[p] = [kind |-> "streak", num |-> 0, text |-> ""])
    /\ [][ \A p \in Tasks :
             (/\ pc[p] = "connect"
              /\ op[p].name = "get_current_streak"
              /\ pc'[p] # pc[p]
              /\ \A c \in habit_completions : c.habit_id # op[p].habit_id)
                 => /\ pc'[p] = "compute"
                    /\ completion_days'[p] = {}
         ]_vars

\* the streak of a deleted habit was asked for and is 0
C10_Witness ==
    \E p \in Tasks :
        /\ IsStreakResult(p)
        /\ op[p].habit_id \in deleted
        /\ result[p].num = 0


\* C11: a complete_habit that commits a completion on a local calendar date
\* on which the habit already has one leaves the streak that
\* get_current_streak computes on that date the same, while list_completions
\* has one more row: one per completion.
C11_SameDayCountsOnce ==
    [][ \A p \in Tasks :
          (/\ pc[p] = "commit"
           /\ op[p].name = "complete_habit"
           /\ pc'[p] = "done")
              => \A new \in habit_completions' \ habit_completions :
                    LET day == (new.completion_date + tz) \div TicksPerDay
                    IN (\E c \in habit_completions :
                          /\ c.habit_id = new.habit_id
                          /\ (c.completion_date + tz) \div TicksPerDay = day)
                       => /\ CurrentStreak(
                                CompletionDays(habit_completions',
                                               new.habit_id), day)
                             = CurrentStreak(
                                CompletionDays(habit_completions,
                                               new.habit_id), day)
                          /\ Cardinality(habit_completions')
                               = Cardinality(habit_completions) + 1
                          /\ \A rows \in ListCompletionsResults(
                                            habits', habit_completions') :
                               Len(rows) = Cardinality(habit_completions')
      ]_vars


\* C12: no habit row, committed or in the open transaction, has an empty
\* name.
C12_NamesAreNonEmpty ==
    /\ \A i \in DOMAIN habits : habits[i].name # ""
    /\ \A i \in DOMAIN txn.habits : txn.habits[i].name # ""

\* C13: with its habit present, each step of complete_habit goes on (the
\* check finds it, the insert is accepted) and the commit returns the
\* confirmation and adds exactly one row, with a new id, for its habit; so
\* two calls for one habit that is still there, however interleaved, that
\* have both returned the confirmation have left two rows of that habit.
C13_ConcurrentCompletionsBothCount ==
    /\ [](\A p, q \in Tasks :
            (/\ p # q
             /\ pc[p] = "done" /\ pc[q] = "done"
             /\ op[p].name = "complete_habit" /\ op[q] = op[p]
             /\ result[p].kind = "completed" /\ result[q].kind = "completed"
             /\ op[p].habit_id \in DOMAIN habits)
                => Cardinality({c \in habit_completions :
                                   c.habit_id = op[p].habit_id}) >= 2)
    /\ [][ \A p \in Tasks :
             (/\ op[p].name = "complete_habit"
              /\ op[p].habit_id \in DOMAIN habits
              /\ pc'[p] # pc[p])
                 => /\ pc[p] = "connect" => pc'[p] = "insert"
                    /\ pc[p] = "insert" => pc'[p] = "commit"
                    /\ pc[p] = "commit" =>
                          /\ pc'[p] = "done"
                          /\ result'[p] = [kind |-> "completed",
                                           num |-> op[p].habit_id,
                                           text |-> ""]
                          /\ \E new \in habit_completions' :
                                /\ new.habit_id = op[p].habit_id
                                /\ \A c \in habit_completions : c.id # new.id
                                /\ habit_completions'
                                     = habit_completions \cup {new}
         ]_vars

\* both tasks' complete_habit(h) have returned the confirmation and the
\* habit has the two rows
C13_Witness ==
    \E p, q \in Tasks :
        /\ p # q
        /\ pc[p] = "done" /\ pc[q] = "done"
        /\ op[p].name = "complete_habit" /\ op[q] = op[p]
        /\ result[p].kind = "completed" /\ result[q].kind = "completed"
        /\ Cardinality({c \in habit_completions :
                           c.habit_id = op[p].habit_id}) = 2

\* C14: the commit of a delete_habit whose id matches no habit returns
\* "Habit <id> deleted successfully." and leaves habits, habit_completions
\* and the id counters as they were.
C14_DeleteOfMissingHabit ==
    [][ \A p \in Tasks :
          (/\ op[p].name = "delete_habit"
           /\ op[p].habit_id \notin DOMAIN habits
           /\ pc'[p] # pc[p])
              => /\ pc[p] = "connect" =>
                      /\ pc'[p] = "commit"
                      /\ UNCHANGED <<habits, habit_completions,
                                     sqlite_sequence>>
                 /\ pc[p] = "commit" =>
                      /\ pc'[p] = "done"
                      /\ result'[p] = [kind |-> "deleted",
                                       num |-> op[p].habit_id, text |-> ""]
                      /\ UNCHANGED <<habits, habit_completions,
                                     sqlite_sequence>>
      ]_vars

\* delete_habit has returned for an id the store never assigned, with rows
\* in both tables
C14_Witness ==
    \E p \in Tasks :
        /\ pc[p] = "done"
        /\ op[p].name = "delete_habit"
        /\ result[p].kind = "deleted"
        /\ op[p].habit_id > sqlite_sequence.habits
        /\ habit_completions # {}


\* C15: the rows list_completions fetches are, one for one, the completions
\* in the store, each with its id, its habit's name and its timestamp, and
\* no row has a later timestamp than the row before it.
C15_ListCompletionsNewestFirst ==
    [][ \A p \in Tasks :
          (/\ pc[p] = "connect"
           /\ op[p].name = "list_completions"
           /\ pc'[p] # pc[p])
              => LET rows == fetched'[p]
                 IN /\ pc'[p] = "done"
                    /\ Len(rows) = Cardinality(habit_completions)
                    /\ \A c \in habit_completions :
                          \E i \in 1..Len(rows) :
                              /\ rows[i].id = c.id
                              /\ rows[i].completion_date = c.completion_date
                              /\ c.habit_id \in DOMAIN habits
                              /\ rows[i].name = habits[c.habit_id].name
                    /\ \A i \in 1..(Len(rows) - 1) :
                          rows[i].completion_date >= rows[i + 1].completion_date
      ]_vars

\* list_completions has returned rows with different timestamps
C15_Witness ==
    \E p \in Tasks :
        /\ pc[p] = "done"
        /\ op[p].name = "list_completions"
        /\ Len(fetched[p]) >= 2
        /\ fetched[p][1].completion_date > fetched[p][Len(fetched[p])].completion_date


Earliest(days) == CHOOSE d \in days : \A e \in days : d <= e

\* C16 as stated: for a non-empty set of completion days the loop of
\* get_current_streak runs at most (today - earliest day) times.
C16_WalkWithinSpan ==
    \A p \in Tasks :
        (IsStreakResult(p) /\ completion_days[p] # {}) =>
            StreakSteps(completion_days[p], today[p], 0)
                <= today[p] - Earliest(completion_days[p])

\* C16 as amended: the loop runs at most (today - earliest day) + 2 times
\* when the earliest day is not after today, and once when it is; it runs
\* once more than the streak it returns.
C16_WalkWithinSpanPlusTwo ==
    \A p \in Tasks :
        (IsStreakResult(p) /\ completion_days[p] # {}) =>
            LET steps == StreakSteps(completion_days[p], today[p], 0)
                span == today[p] - Earliest(completion_days[p])
            IN /\ steps = result[p].num + 1
               /\ span >= 0 => steps <= span + 2
               /\ span < 0 => steps = 1

\* every day from the earliest completion to today is there: the loop runs
\* (today - earliest) + 2 times, over three days
C16_Witness ==
    \E p \in Tasks :
        /\ IsStreakResult(p)
        /\ completion_days[p] # {}
        /\ today[p] - Earliest(completion_days[p]) = 2
        /\ StreakSteps(completion_days[p], today[p], 0) = 4


\* C17: a complete_habit that has passed its existence check and whose habit
\* is gone when it inserts (a delete_habit committed in between) ends with
\* the store's foreign-key error, not with the confirmation, and commits no
\* row: the store is left as it was.
C17_RaceWithDeleteIsRejected ==
    [][ \A p \in Tasks :
          (/\ pc[p] = "insert"
           /\ op[p].name = "complete_habit"
           /\ op[p].habit_id \notin DOMAIN habits
           /\ pc'[p] # pc[p])
              => /\ pc'[p] = "done"
                 /\ result'[p] = [kind |-> "error", num |-> 0,
                                  text |-> "FOREIGN KEY constraint failed"]
                 /\ UNCHANGED storeVars
      ]_vars

\* the insert was rejected; the other habit and its completion are untouched
C17_Witness ==
    \E p \in Tasks :
        /\ pc[p] = "done"
        /\ op[p].name = "complete_habit"
        /\ result[p].text = "FOREIGN KEY constraint failed"
        /\ op[p].habit_id \notin DOMAIN habits
        /\ \A c \in habit_completions : c.habit_id # op[p].habit_id
        /\ habit_completions # {}


\* C18: no habit has the id of a deleted habit; the id add_habit creates is
\* none that exists or was deleted; and for a deleted habit's id
\* complete_habit returns the non-existence message and get_current_streak
\* fetches no day and returns 0.
C18_HabitIdsAreNeverReused ==
    /\ [](/\ deleted \cap DOMAIN habits = {}
          /\ deleted \cap DOMAIN txn.habits = {})
    /\ [](\A p \in Tasks :
            (/\ pc[p] = "done"
             /\ op[p].name = "get_current_streak"
             /\ op[p].habit_id \in deleted
             /\ completion_days[p] = {})
                => result[p] = [kind |-> "streak", num |-> 0, text |-> ""])
    /\ [][ /\ \A p \in Tasks :
                (pc[p] = "commit" /\ op[p].name = "add_habit"
                    /\ pc'[p] = "done")
                    => \E id \in DOMAIN habits' :
                          /\ id \notin DOMAIN habits
                          /\ id \notin deleted
                          /\ DOMAIN habits' = DOMAIN habits \cup {id}
           /\ \A p \in Tasks :
                (/\ pc[p] = "connect"
                 /\ op[p].habit_id \in deleted
                 /\ pc'[p] # pc[p])
                    => /\ op[p].name = "complete_habit" =>
                            /\ pc'[p] = "done"
                            /\ result'[p] = [kind |-> "does_not_exist",
                                             num |-> op[p].habit_id,
                                             text |-> ""]
                       /\ op[p].name = "get_current_streak" =>
                            completion_days'[p] = {}
         ]_vars

\* a habit was deleted, add_habit then created a habit with another id, and
\* complete_habit is called with the deleted id
C18_Witness ==
    \E p \in Tasks :
        /\ pc[p] = "connect"
        /\ op[p].name = "complete_habit"
        /\ op[p].habit_id \in deleted
        /\ \E id \in DOMAIN habits : id > op[p].habit_id


\* C19: a caller that is inside ensure_db_initialized, waiting for the lock
\* or running init_db, eventually is not: it has returned into its handler
\* or raised.
C19_GuardCallsTerminate ==
    \A p \in Tasks :
        (pc[p] \in {"lock_wait", "init_db"})
            ~> (pc[p] \notin {"lock_wait", "init_db"})

\* an init_db call of the guard failed and raised to its caller; the next
\* holder of the lock ran init_db and has returned into its handler
C19_Witness ==
    \E p, q \in Tasks :
        /\ p # q
        /\ pc[p] = "done"
        /\ result[p] = [kind |-> "error", num |-> 0, text |-> "init_db"]
        /\ guardInitFailures = 1
        /\ guardInitCalls = 2
        /\ pc[q] = "connect"


\* C20: no step of list_habits, list_completions or get_current_streak
\* changes the tables, the id counters or the open transaction; and no step
\* at all unsets _db_initialized.
C20_ReadsChangeNothing ==
    [][ /\ \A p \in Tasks :
              (/\ op[p].name \in {"list_habits", "list_completions",
                                  "get_current_streak"}
               /\ pc[p] \in {"connect", "compute"}
               /\ pc'[p] # pc[p])
                  => UNCHANGED <<habits, habit_completions, sqlite_sequence,
                                 txn, tables>>
        /\ db_initialized => db_initialized'
      ]_vars

\* the three read-only operations have run against a store that holds a
\* habit: list_habits has returned it
C20_Witness ==
    \E p \in Tasks :
        /\ pc[p] = "done"
        /\ op[p].name = "list_habits"
        /\ Len(fetched[p]) = 1
        /\ fetched[p][1].id \in DOMAIN habits
        /\ db_initialized

====
